---- MODULE Spec2Model ----
(***************************************************************************)
(* A model of earthquake-app.py: one run of the dashboard script (fetch    *)
(* both USGS feeds, normalise them into tables, filter by magnitude,       *)
(* region and keyword, render, show the tables) and the reruns that a      *)
(* change of a sidebar control triggers.                                   *)
(*                                                                         *)
(* Text is a sequence of one-character strings.  A JSON scalar is a tagged *)
(* record: Num(n), Str(s) or Null.  Magnitudes and the slider value are in *)
(* tenths (1.0 is 10); the clock is in minutes.                            *)
(***************************************************************************)
EXTENDS Integers, Sequences, FiniteSets, TLC

VARIABLES
    min_magnitude,      \* st.sidebar.slider value, in tenths
    selected_regions,   \* st.sidebar.multiselect value, a list of region names
    location_keyword,   \* st.sidebar.text_input value, text
    upstream,           \* what the survey's server answered, per feed, this run
    realtime_data,      \* the script's variable realtime_data (a table)
    historical_data,    \* the script's variable historical_data (a table)
    pc,                 \* the statement the script run is at
    err,                \* the exception that ended the run, if any
    shown,              \* the elements the run has put on the page
    requests,           \* every HTTP GET of the session: [url, at, ok], ok when
                        \* fetch_earthquake_data returned a table from it
    now                 \* wall clock, minutes

vars == <<min_magnitude, selected_regions, location_keyword, upstream,
          realtime_data, historical_data, pc, err, shown, requests, now>>

----------------------------------------------------------------------------
(* Bounds of the model. *)

\* Most features the two feeds of one run carry together.
MaxFeatures == 3
\* HTTP requests in one session (a run issues up to two).
MaxRequests == 4
\* The clock stops advancing after this many half-hour steps.
MaxTicks == 3

----------------------------------------------------------------------------
(* JSON scalars and text. *)

Null == [null |-> TRUE]
Num(n) == [num |-> n]
Str(s) == [str |-> s]
IsNull(v) == "null" \in DOMAIN v
IsNum(v) == "num" \in DOMAIN v
IsStr(v) == "str" \in DOMAIN v

UpperCase == <<"A","B","C","D","E","F","G","H","I","J","K","L","M","N","O","P","Q","R","S","T","U","V","W","X","Y","Z">>
LowerCase == <<"a","b","c","d","e","f","g","h","i","j","k","l","m","n","o","p","q","r","s","t","u","v","w","x","y","z">>

\* The lower-case letter of each upper-case letter.
FoldTable ==
    [c \in {UpperCase[i] : i \in 1..Len(UpperCase)} |->
        LowerCase[CHOOSE i \in 1..Len(UpperCase) : UpperCase[i] = c]]

\* str.lower() of one character (re.IGNORECASE folds both sides), ASCII.
Lower(c) == IF c \in DOMAIN FoldTable THEN FoldTable[c] ELSE c

\* Fault variant of the join: the separator is left out.
RECURSIVE JoinWithoutSeparator(_, _)
JoinWithoutSeparator(parts, sep) ==
    IF parts = <<>> THEN <<>>
    ELSE Head(parts) \o JoinWithoutSeparator(Tail(parts), sep)

\* "sep".join(parts)
RECURSIVE Join(_, _)
Join(parts, sep) ==
    IF parts = <<>> THEN <<>>
    ELSE IF Len(parts) = 1 THEN Head(parts)
    ELSE Head(parts) \o sep \o Join(Tail(parts), sep)

----------------------------------------------------------------------------
(* Python's re, for patterns over letters, digits, space, comma and the    *)
(* metacharacters . | * ( -- the characters the modelled inputs contain.   *)
(* There is no ")" among them, so every "(" opens a group that is never    *)
(* closed.                                                                 *)

\* re.compile(pat) raises re.error: an unterminated group, or a "*" with
\* nothing before it to repeat (at the start, after "|", after another "*").
RegexCompileError(pat) ==
    \E i \in 1..Len(pat) :
        \/ pat[i] = "("
        \/ pat[i] = "*" /\ (i = 1 \/ pat[i - 1] \in {"*", "|"})

\* One pattern character against one subject character.
CharMatches(p, c, ignorecase) ==
    \/ p = "."
    \/ IF ignorecase THEN Lower(p) = Lower(c) ELSE p = c

\* Whether the alternative of pat that starts at i matches s from j on.
RECURSIVE MatchHere(_, _, _, _, _)
MatchHere(pat, i, s, j, ignorecase) ==
    IF i > Len(pat) \/ pat[i] = "|" THEN TRUE
    ELSE IF i < Len(pat) /\ pat[i + 1] = "*"
    THEN \/ MatchHere(pat, i + 2, s, j, ignorecase)
         \/ /\ j <= Len(s)
            /\ CharMatches(pat[i], s[j], ignorecase)
            /\ MatchHere(pat, i, s, j + 1, ignorecase)
    ELSE /\ j <= Len(s)
         /\ CharMatches(pat[i], s[j], ignorecase)
         /\ MatchHere(pat, i + 1, s, j + 1, ignorecase)

\* Where the alternatives of pat start.
BranchStarts(pat) == {1} \cup {i + 1 : i \in {k \in 1..Len(pat) : pat[k] = "|"}}

\* regex.search(s) is not None, for a pattern that compiled.
RegexSearch(pat, s, ignorecase) ==
    \E b \in BranchStarts(pat) :
        \E j \in 1..(Len(s) + 1) : MatchHere(pat, b, s, j, ignorecase)

----------------------------------------------------------------------------
(* The region catalog. *)

REGION_KEYWORDS ==
       "Asia" :> <<
          <<"C","h","i","n","a">>,
          <<"J","a","p","a","n">>,
          <<"I","n","d","i","a">>,
          <<"I","n","d","o","n","e","s","i","a">>,
          <<"P","h","i","l","i","p","p","i","n","e","s">>,
          <<"N","e","p","a","l">>,
          <<"T","u","r","k","e","y">>,
          <<"I","r","a","n">>,
          <<"P","a","k","i","s","t","a","n">> >>
    @@ "North America" :> <<
          <<"C","a","l","i","f","o","r","n","i","a">>,
          <<"A","l","a","s","k","a">>,
          <<"M","e","x","i","c","o">>,
          <<"U","S","A">>,
          <<"H","a","w","a","i","i">>,
          <<"C","a","n","a","d","a">> >>
    @@ "South America" :> <<
          <<"C","h","i","l","e">>,
          <<"P","e","r","u">>,
          <<"A","r","g","e","n","t","i","n","a">>,
          <<"E","c","u","a","d","o","r">>,
          <<"C","o","l","o","m","b","i","a">>,
          <<"B","o","l","i","v","i","a">> >>
    @@ "Europe" :> <<
          <<"I","t","a","l","y">>,
          <<"G","r","e","e","c","e">>,
          <<"R","o","m","a","n","i","a">>,
          <<"S","p","a","i","n">>,
          <<"I","c","e","l","a","n","d">>,
          <<"P","o","r","t","u","g","a","l">>,
          <<"F","r","a","n","c","e">> >>
    @@ "Africa" :> <<
          <<"M","o","r","o","c","c","o">>,
          <<"T","a","n","z","a","n","i","a">>,
          <<"E","t","h","i","o","p","i","a">>,
          <<"S","o","u","t","h"," ","A","f","r","i","c","a">>,
          <<"A","l","g","e","r","i","a">>,
          <<"E","g","y","p","t">> >>
    @@ "Oceania" :> <<
          <<"N","e","w"," ","Z","e","a","l","a","n","d">>,
          <<"A","u","s","t","r","a","l","i","a">>,
          <<"P","a","p","u","a">>,
          <<"F","i","j","i">>,
          <<"S","a","m","o","a">> >>
    @@ "Middle East" :> <<
          <<"I","r","a","n">>,
          <<"I","r","a","q">>,
          <<"S","y","r","i","a">>,
          <<"I","s","r","a","e","l">>,
          <<"S","a","u","d","i"," ","A","r","a","b","i","a">>,
          <<"J","o","r","d","a","n">>,
          <<"L","e","b","a","n","o","n">> >>
    @@ "Pacific Ocean" :> <<
          <<"P","a","c","i","f","i","c">>,
          <<"T","o","n","g","a">>,
          <<"V","a","n","u","a","t","u">>,
          <<"K","e","r","m","a","d","e","c">>,
          <<"S","o","l","o","m","o","n">>,
          <<"G","u","a","m">> >>

----------------------------------------------------------------------------
(* Tables (pandas DataFrame): the column labels and the rows in order. *)

COLUMNS == <<"place", "magnitude", "time_utc", "time_local", "latitude", "longitude">>

LOCAL_ZONE == "America/Los_Angeles"

Ok(v) == [ok |-> TRUE, value |-> v]
Raise(e) == [ok |-> FALSE, exc |-> e]

HasColumn(df, c) == \E i \in 1..Len(df.columns) : df.columns[i] = c

\* df.empty
Empty(df) == df.columns = <<>> \/ df.rows = <<>>

\* pd.DataFrame(list of dicts): no dicts, no columns.
DataFrame(earthquakes) ==
    IF earthquakes = <<>>
    THEN [columns |-> <<>>, rows |-> <<>>]
    ELSE [columns |-> COLUMNS, rows |-> earthquakes]

\* The body of the loop over the features: the dict appended for one feature.
\* feature['properties'] and feature['geometry'] raise KeyError when absent;
\* the coordinates are copied as they are, numeric or not.
FeatureHasKeys(feature) ==
    "properties" \in DOMAIN feature /\ "geometry" \in DOMAIN feature

EarthquakeDict(feature) ==
    [place      |-> feature.properties.place,
     magnitude  |-> feature.properties.mag,
     time_utc   |-> feature.properties.time,
     time_local |-> [instant |-> feature.properties.time, tz |-> LOCAL_ZONE],
     latitude   |-> feature.geometry.coordinates[2],
     longitude  |-> feature.geometry.coordinates[1]]

\* Fault variant of the loop: each dict goes in front of the list.
RECURSIVE BuildEarthquakesPrepending(_, _)
BuildEarthquakesPrepending(features, earthquakes) ==
    IF features = <<>> THEN Ok(earthquakes)
    ELSE IF ~FeatureHasKeys(Head(features)) THEN Raise("KeyError")
    ELSE BuildEarthquakesPrepending(Tail(features),
                                    <<EarthquakeDict(Head(features))>> \o earthquakes)

\* for feature in features: ... earthquakes.append({...})
RECURSIVE BuildEarthquakes(_, _)
BuildEarthquakes(features, earthquakes) ==
    IF features = <<>> THEN Ok(earthquakes)
    ELSE IF ~FeatureHasKeys(Head(features)) THEN Raise("KeyError")
    ELSE BuildEarthquakes(Tail(features),
                          Append(earthquakes, EarthquakeDict(Head(features))))

\* fetch_earthquake_data(url), given the answer the server gives for url.
\*   unreachable : requests.get raises ConnectionError
\*   not_json    : a non-2xx answer with an HTML body, response.json() raises
\*   no_features : a JSON body without 'features', data['features'] raises
fetch_earthquake_data(response) ==
    CASE response.kind = "unreachable" -> Raise("ConnectionError")
      [] response.kind = "not_json"    -> Raise("JSONDecodeError")
      [] response.kind = "no_features" -> Raise("KeyError")
      [] response.kind = "ok" ->
            LET built == BuildEarthquakes(response.features, <<>>)
            IN  IF built.ok THEN Ok(DataFrame(built.value)) ELSE built

----------------------------------------------------------------------------
(* The filters. *)

\* Fault variant of the comparison: a missing magnitude counts as 0.
GreaterEqualNullAsZero(magnitude, threshold) ==
    IF IsNum(magnitude) THEN magnitude.num >= threshold ELSE 0 >= threshold

\* series >= threshold, element-wise: a missing magnitude (NaN) compares False.
GreaterEqual(magnitude, threshold) ==
    IsNum(magnitude) /\ magnitude.num >= threshold

\* Fault variant of the filter: only the first record that passes is kept.
MagnitudeFilterFirstOnly(df, threshold) ==
    IF ~HasColumn(df, "magnitude") THEN Raise("KeyError")
    ELSE LET kept == SelectSeq(df.rows, LAMBDA r : GreaterEqual(r.magnitude, threshold))
         IN  Ok([df EXCEPT !.rows = IF kept = <<>> THEN <<>> ELSE <<Head(kept)>>])

\* df[df["magnitude"] >= min_magnitude]
MagnitudeFilter(df, threshold) ==
    IF ~HasColumn(df, "magnitude") THEN Raise("KeyError")
    ELSE Ok([df EXCEPT !.rows =
                SelectSeq(df.rows, LAMBDA r : GreaterEqual(r.magnitude, threshold))])

\* df[df["place"].str.contains(pat, case=False, na=False)]: pat is a regular
\* expression (regex=True is the default); a missing place gives False.
StrContainsFilter(df, pat) ==
    IF ~HasColumn(df, "place") THEN Raise("KeyError")
    ELSE IF RegexCompileError(pat) THEN Raise("re.error")
    ELSE Ok([df EXCEPT !.rows =
                SelectSeq(df.rows,
                          LAMBDA r : IsStr(r.place) /\ RegexSearch(pat, r.place.str, TRUE))])

\* [term for region in selected_regions for term in REGION_KEYWORDS[region]]
RECURSIVE Keywords(_)
Keywords(regions) ==
    IF regions = <<>> THEN <<>>
    ELSE REGION_KEYWORDS[Head(regions)] \o Keywords(Tail(regions))

\* apply_region_filter(df), with the global selected_regions
apply_region_filter(df, regions) ==
    IF regions = <<>> THEN Ok(df)
    ELSE StrContainsFilter(df, Join(Keywords(regions), <<"|">>))

\* if location_keyword: df = df[df["place"].str.contains(location_keyword, ...)]
KeywordSearch(df, keyword) ==
    IF keyword = <<>> THEN Ok(df)
    ELSE StrContainsFilter(df, keyword)

----------------------------------------------------------------------------
(* The derived date of the time-lapse. *)

MsPerDay == 24 * 60 * 60 * 1000

\* pytz America/Los_Angeles for the instants the modelled feeds carry
\* (January 1970, Pacific Standard Time): eight hours behind UTC.
UtcOffsetMs(instant) == 0 - 8 * 60 * 60 * 1000

\* .dt.date : the local calendar day, as days since 1970-01-01
LocalDay(time_local) == (time_local.instant + UtcOffsetMs(time_local.instant)) \div MsPerDay

\* .astype(str) of a date, for the days the modelled feeds reach
IsoDate(day) ==
    CASE day = 0 - 1 -> "1969-12-31"
      [] day = 0     -> "1970-01-01"
      [] day = 1     -> "1970-01-02"

\* historical_data["date"] = historical_data["time_local"].dt.date.astype(str)
WithDateColumn(df) ==
    [columns |-> IF HasColumn(df, "date") THEN df.columns ELSE Append(df.columns, "date"),
     rows    |-> [i \in 1..Len(df.rows) |->
                    [c \in DOMAIN df.rows[i] \cup {"date"} |->
                        IF c = "date" THEN IsoDate(LocalDay(df.rows[i].time_local))
                        ELSE df.rows[i][c]]]]

----------------------------------------------------------------------------
(* The inputs: what the sidebar can hold and what the server can answer. *)

realtime_url == "all_hour.geojson"
historical_url == "all_month.geojson"

\* The slider's default, 1.0.
DefaultMinMagnitude == 10

\* Slider values tried: its minimum 0.0, and 4.5.
Thresholds == {0, 45}

RegionSelections ==
    { <<>>, <<"North America">>, <<"Asia", "Middle East">> }

\* "", "japan", ".", "("
Queries ==
    { <<>>, <<"j","a","p","a","n">>, <<".">>, <<"(">> }

PlaceCalifornia == <<"1","0","k","m"," ","N","W"," ","o","f"," ","A","n","y","t","o","w","n",","," ","C","a","l","i","f","o","r","n","i","a">>
PlaceJapan == <<"T","o","k","y","o",","," ","J","a","p","a","n">>
PlaceAlaska == <<"5","k","m"," ","S"," ","o","f"," ","A","L","A","S","K","A"," ","P","e","n",".">>

Hour == 60 * 60 * 1000

Coordinates(lon, lat) == <<Num(lon), Num(lat), Num(10)>>

FeatureCalifornia ==
    [properties |-> [time |-> 0, mag |-> Num(45), place |-> Str(PlaceCalifornia)],
     geometry   |-> [coordinates |-> Coordinates(0 - 120, 36)]]
FeatureJapan ==
    [properties |-> [time |-> 2 * Hour, mag |-> Num(10), place |-> Str(PlaceJapan)],
     geometry   |-> [coordinates |-> Coordinates(139, 35)]]
FeatureAlaska ==
    [properties |-> [time |-> 33 * Hour, mag |-> Num(45), place |-> Str(PlaceAlaska)],
     geometry   |-> [coordinates |-> Coordinates(0 - 158, 56)]]
FeatureNoMagnitude ==
    [properties |-> [time |-> 0, mag |-> Null, place |-> Str(PlaceJapan)],
     geometry   |-> [coordinates |-> Coordinates(139, 35)]]
FeatureNoGeometry ==
    [properties |-> [time |-> 0, mag |-> Num(45), place |-> Str(PlaceJapan)]]

FeatureSet ==
    { FeatureCalifornia, FeatureJapan, FeatureAlaska,
      FeatureNoMagnitude, FeatureNoGeometry }

\* The spec's well-formedness of a feature: both sub-objects, numeric coordinates.
WellFormed(feature) ==
    /\ FeatureHasKeys(feature)
    /\ \A k \in 1..2 : IsNum(feature.geometry.coordinates[k])

\* A feed lists each event once.
Payloads ==
    { p \in UNION { [1..n -> FeatureSet] : n \in 0..MaxFeatures } :
        \A i, j \in 1..Len(p) : p[i] = p[j] => i = j }

Responses ==
    { [kind |-> "ok", features |-> p] : p \in Payloads }
    \cup { [kind |-> k] : k \in {"unreachable", "not_json", "no_features"} }

\* The answers of a session with reruns: a one-event feed, or no answer.
SessionResponses ==
    { [kind |-> "ok", features |-> <<FeatureCalifornia>>], [kind |-> "unreachable"] }

NotFetched == [kind |-> "none"]
Unbound == [columns |-> <<>>, rows |-> <<>>, unbound |-> TRUE]
NoError == [type |-> "none", step |-> "none"]

----------------------------------------------------------------------------
(* The script, statement by statement. *)

Fail(exc) ==
    /\ pc' = "failed"
    /\ err' = [type |-> exc, step |-> pc]

Controls == <<min_magnitude, selected_regions, location_keyword>>

\* realtime_data = fetch_earthquake_data(realtime_url)
FetchRealtime(answers) ==
    /\ pc = "fetch_realtime"
    /\ \E response \in answers :
         LET r == fetch_earthquake_data(response)
         IN  /\ upstream' = [upstream EXCEPT !.realtime = response]
             /\ requests' = Append(requests, [url |-> realtime_url, at |-> now, ok |-> r.ok])
             /\ IF r.ok
                THEN realtime_data' = r.value /\ pc' = "fetch_historical" /\ UNCHANGED err
                ELSE Fail(r.exc) /\ UNCHANGED realtime_data
    /\ UNCHANGED <<Controls, historical_data, shown, now>>

\* The features an answer carries.
Carried(response) == IF response.kind = "ok" THEN Len(response.features) ELSE 0

\* historical_data = fetch_earthquake_data(historical_url)
FetchHistorical(answers) ==
    /\ pc = "fetch_historical"
    /\ \E response \in answers :
         LET r == fetch_earthquake_data(response)
         IN  /\ Carried(upstream.realtime) + Carried(response) <= MaxFeatures
             /\ upstream' = [upstream EXCEPT !.historical = response]
             /\ requests' = Append(requests, [url |-> historical_url, at |-> now, ok |-> r.ok])
             /\ IF r.ok
                THEN historical_data' = r.value /\ pc' = "magnitude_filter" /\ UNCHANGED err
                ELSE Fail(r.exc) /\ UNCHANGED historical_data
    /\ UNCHANGED <<Controls, realtime_data, shown, now>>

\* Two assignments in a row, realtime_data then historical_data: the first
\* exception ends the run, with the first assignment already made.
FilterBoth(rt, hist, next) ==
    IF ~rt.ok THEN Fail(rt.exc) /\ UNCHANGED <<realtime_data, historical_data>>
    ELSE IF ~hist.ok THEN Fail(hist.exc) /\ realtime_data' = rt.value /\ UNCHANGED historical_data
    ELSE /\ realtime_data' = rt.value
         /\ historical_data' = hist.value
         /\ pc' = next
         /\ UNCHANGED err

\* realtime_data = realtime_data[realtime_data["magnitude"] >= min_magnitude], ...
ApplyMagnitudeFilter ==
    /\ pc = "magnitude_filter"
    /\ FilterBoth(MagnitudeFilter(realtime_data, min_magnitude),
                  MagnitudeFilter(historical_data, min_magnitude), "region_filter")
    /\ UNCHANGED <<Controls, upstream, shown, requests, now>>

\* realtime_data = apply_region_filter(realtime_data), ...
ApplyRegionFilter ==
    /\ pc = "region_filter"
    /\ FilterBoth(apply_region_filter(realtime_data, selected_regions),
                  apply_region_filter(historical_data, selected_regions), "keyword_search")
    /\ UNCHANGED <<Controls, upstream, shown, requests, now>>

\* if location_keyword: ...
ApplyKeywordSearch ==
    /\ pc = "keyword_search"
    /\ FilterBoth(KeywordSearch(realtime_data, location_keyword),
                  KeywordSearch(historical_data, location_keyword), "maps")
    /\ UNCHANGED <<Controls, upstream, shown, requests, now>>

Element(kind, name, columns) == [kind |-> kind, name |-> name, columns |-> columns]

Show(element, next) ==
    /\ shown' = Append(shown, element)
    /\ pc' = next

\* The two scatter maps, then the heatmap and the cluster map, each of the
\* last two behind "if not historical_data.empty", with st.info otherwise.
\* None of them assigns a variable of the script.
Maps ==
    /\ pc = "maps"
    /\ shown' = shown \o
         << Element("chart", "fig_realtime", <<>>),
            Element("chart", "fig_historical", <<>>),
            IF ~Empty(historical_data)
            THEN Element("chart", "fig_heatmap", <<>>)
            ELSE Element("info", "No data available for heatmap.", <<>>),
            IF ~Empty(historical_data)
            THEN Element("chart", "cluster", <<>>)
            ELSE Element("info", "No data available for clustering map.", <<>>) >>
    /\ pc' = "time_lapse"
    /\ UNCHANGED <<Controls, upstream, realtime_data, historical_data, err, requests, now>>

\* if not historical_data.empty: historical_data["date"] = ...; animation, else st.info
TimeLapse ==
    /\ pc = "time_lapse"
    /\ IF ~Empty(historical_data)
       THEN /\ historical_data' = WithDateColumn(historical_data)
            /\ Show(Element("chart", "fig_animation", <<>>), "data_tables")
       ELSE /\ UNCHANGED historical_data
            /\ Show(Element("info", "No data available for animation.", <<>>), "data_tables")
    /\ UNCHANGED <<Controls, upstream, realtime_data, err, requests, now>>

\* st.write(realtime_data); st.write(historical_data)
DataTables ==
    /\ pc = "data_tables"
    /\ shown' = shown \o << Element("table", "realtime", realtime_data.columns),
                            Element("table", "historical", historical_data.columns) >>
    /\ pc' = "done"
    /\ UNCHANGED <<Controls, upstream, realtime_data, historical_data, err, requests, now>>

\* Streamlit runs the script again, top to bottom, when a sidebar control
\* changes; the script's variables and the page start afresh.
Rerun ==
    /\ pc \in {"done", "failed"}
    /\ Len(requests) + 2 <= MaxRequests
    /\ \E t \in Thresholds \cup {DefaultMinMagnitude}, rs \in RegionSelections, q \in Queries :
         /\ <<t, rs, q>> # Controls
         /\ min_magnitude' = t
         /\ selected_regions' = rs
         /\ location_keyword' = q
    /\ pc' = "fetch_realtime"
    /\ err' = NoError
    /\ shown' = <<>>
    /\ upstream' = [realtime |-> NotFetched, historical |-> NotFetched]
    /\ realtime_data' = Unbound
    /\ historical_data' = Unbound
    /\ UNCHANGED <<requests, now>>

\* Half an hour passes between two runs.
Tick ==
    /\ pc \in {"done", "failed"}
    /\ now < 30 * MaxTicks
    /\ now' = now + 30
    /\ UNCHANGED <<Controls, upstream, realtime_data, historical_data, pc, err, shown, requests>>

Start ==
    /\ pc = "fetch_realtime"
    /\ err = NoError
    /\ shown = <<>>
    /\ upstream = [realtime |-> NotFetched, historical |-> NotFetched]
    /\ realtime_data = Unbound
    /\ historical_data = Unbound
    /\ requests = <<>>
    /\ now = 0

\* One run of the script, for every setting of the sidebar.
Init ==
    /\ min_magnitude \in Thresholds
    /\ selected_regions \in RegionSelections
    /\ location_keyword \in Queries
    /\ Start

Run(answers) ==
    \/ FetchRealtime(answers)
    \/ FetchHistorical(answers)
    \/ ApplyMagnitudeFilter
    \/ ApplyRegionFilter
    \/ ApplyKeywordSearch
    \/ Maps
    \/ TimeLapse
    \/ DataTables

Next == Run(Responses)

Spec == Init /\ [][Next]_vars

\* A session: the first run with the sidebar's defaults, then reruns.
SessionInit ==
    /\ min_magnitude = DefaultMinMagnitude
    /\ selected_regions = <<>>
    /\ location_keyword = <<>>
    /\ Start

SessionNext == Run(SessionResponses) \/ Rerun \/ Tick

SessionSpec == SessionInit /\ [][SessionNext]_vars

----------------------------------------------------------------------------
(* Properties. *)

Feeds == {"realtime", "historical"}
FetchStep(feed) == IF feed = "realtime" THEN "fetch_realtime" ELSE "fetch_historical"
FilterSteps == {"magnitude_filter", "region_filter", "keyword_search"}

\* The table of a feed, as the script holds it.
Table(feed) == IF feed = "realtime" THEN realtime_data ELSE historical_data

\* The fetch of the feed has returned and no later statement has touched its table.
JustFetched(feed) ==
    IF feed = "realtime" THEN pc \in {"fetch_historical", "magnitude_filter"}
    ELSE pc = "magnitude_filter"

\* The fetch of the feed raised.
FetchRaised(feed) == pc = "failed" /\ err.step = FetchStep(feed)

AllWellFormed(features) == \A i \in 1..Len(features) : WellFormed(features[i])

\* The record is the one the spec builds from the feature.
BuiltFrom(record, feature) ==
    /\ record.place = feature.properties.place
    /\ record.magnitude = feature.properties.mag
    /\ record.time_utc = feature.properties.time
    /\ record.time_local.instant = feature.properties.time
    /\ record.time_local.tz = LOCAL_ZONE
    /\ record.latitude = feature.geometry.coordinates[2]
    /\ record.longitude = feature.geometry.coordinates[1]

\* C1: for a payload whose features are all well-formed, the fetch returns
\* one record per feature, in the order of the features: record i is built
\* from feature i.
C1_OneRecordPerFeatureInOrder ==
    \A feed \in Feeds :
        (upstream[feed].kind = "ok" /\ AllWellFormed(upstream[feed].features)) =>
            /\ ~FetchRaised(feed)
            /\ JustFetched(feed) =>
                 /\ Len(Table(feed).rows) = Len(upstream[feed].features)
                 /\ \A i \in 1..Len(upstream[feed].features) :
                        BuiltFrom(Table(feed).rows[i], upstream[feed].features[i])

\* A feed of two different well-formed features has been fetched.
C1_Witness ==
    /\ pc = "magnitude_filter"
    /\ Len(upstream.historical.features) = 2
    /\ AllWellFormed(upstream.historical.features)
    /\ upstream.historical.features[1] # upstream.historical.features[2]
    /\ Len(historical_data.rows) = 2

\* The records of a sequence whose magnitude is present and at least the threshold.
PresentAndAtLeast(rows, threshold) ==
    SelectSeq(rows, LAMBDA r : ~IsNull(r.magnitude) /\ r.magnitude.num >= threshold)

\* C2: the magnitude filter keeps exactly the records whose magnitude is
\* present and >= the threshold, in order: a record without a magnitude is
\* never kept, for any threshold of the slider, 0.0 included.
C2_MagnitudeFilterKeepsExactly ==
    [][pc = "magnitude_filter" =>
        /\ HasColumn(realtime_data, "magnitude") =>
             realtime_data'.rows = PresentAndAtLeast(realtime_data.rows, min_magnitude)
        /\ pc' = "region_filter" =>
             historical_data'.rows = PresentAndAtLeast(historical_data.rows, min_magnitude)
        /\ pc' = "region_filter" =>
             \A feed \in Feeds : \A i \in 1..Len(Table(feed).rows) :
                 IsNull(Table(feed).rows[i].magnitude) =>
                     \A j \in 1..Len(Table(feed)'.rows) :
                         Table(feed)'.rows[j] # Table(feed).rows[i]]_vars

\* The filter has run with threshold 0.0 over a feed of one record without a
\* magnitude and one with: only the second is left.
C2_Witness ==
    /\ pc = "region_filter"
    /\ min_magnitude = 0
    /\ Len(upstream.historical.features) = 2
    /\ AllWellFormed(upstream.historical.features)
    /\ \E i \in 1..2 : IsNull(upstream.historical.features[i].properties.mag)
    /\ Len(historical_data.rows) = 1
    /\ IsNum(historical_data.rows[1].magnitude)

\* s contains q as a substring, letter case ignored.
ContainsIgnoringCase(s, q) ==
    \E j \in 1..(Len(s) - Len(q) + 1) :
        \A k \in 1..Len(q) : Lower(s[j + k - 1]) = Lower(q[k])

\* The keywords of the selected regions, as a set.
SelectedKeywords(regions) ==
    UNION { { REGION_KEYWORDS[regions[i]][k] : k \in 1..Len(REGION_KEYWORDS[regions[i]]) } :
            i \in 1..Len(regions) }

\* The records whose place is present and contains one of the keywords.
PlaceContainsOneOf(rows, keywords) ==
    SelectSeq(rows, LAMBDA r : /\ ~IsNull(r.place)
                               /\ \E q \in keywords : ContainsIgnoringCase(r.place.str, q))

\* C3: with no region selected the region filter returns its input; with
\* regions selected it keeps exactly the records whose place contains,
\* letter case ignored, a keyword of a selected region, and it never raises.
C3_RegionFilter ==
    [][pc = "region_filter" =>
        /\ pc' = "keyword_search"
        /\ IF selected_regions = <<>>
           THEN realtime_data' = realtime_data /\ historical_data' = historical_data
           ELSE \A feed \in Feeds :
                    /\ Table(feed)'.columns = Table(feed).columns
                    /\ Table(feed)'.rows =
                         PlaceContainsOneOf(Table(feed).rows,
                                            SelectedKeywords(selected_regions))]_vars

\* The spec's example has run: with North America selected, of the records
\* of Anytown, California and of Tokyo, Japan only the first is left.
C3_Witness ==
    /\ pc = "keyword_search"
    /\ selected_regions = <<"North America">>
    /\ upstream.historical.kind = "ok"
    /\ upstream.historical.features = <<FeatureCalifornia, FeatureJapan>>
    /\ min_magnitude = 0
    /\ Len(historical_data.rows) = 1
    /\ historical_data.rows[1].place = Str(PlaceCalifornia)

\* The records whose place is present and contains the query.
PlaceContains(rows, query) ==
    SelectSeq(rows, LAMBDA r : ~IsNull(r.place) /\ ContainsIgnoringCase(r.place.str, query))

\* C4: the keyword filter returns its input for the empty query; for any
\* other query it keeps exactly the records whose place contains the query,
\* taken literally and letter case ignored, and it never raises.
C4_KeywordFilterLiteral ==
    [][pc = "keyword_search" =>
        /\ pc' = "maps"
        /\ IF location_keyword = <<>>
           THEN realtime_data' = realtime_data /\ historical_data' = historical_data
           ELSE \A feed \in Feeds :
                    Table(feed)'.rows = PlaceContains(Table(feed).rows, location_keyword)]_vars

\* The filters by name, and the orders they can be applied in.
ApplyFilter(name, df) ==
    CASE name = "magnitude" -> MagnitudeFilter(df, min_magnitude)
      [] name = "region"    -> apply_region_filter(df, selected_regions)
      [] name = "keyword"   -> KeywordSearch(df, location_keyword)

Orders ==
    { o \in [1..3 -> {"magnitude", "region", "keyword"}] :
        \A i, j \in 1..3 : o[i] = o[j] => i = j }

\* The filters applied to a table in the given order, an exception ending it.
RECURSIVE Chain(_, _)
Chain(order, df) ==
    IF order = <<>> THEN Ok(df)
    ELSE LET first == ApplyFilter(Head(order), df)
         IN  IF first.ok THEN Chain(Tail(order), first.value) ELSE first

\* The table the fetch of the feed returned this run.
Fetched(feed) == fetch_earthquake_data(upstream[feed]).value

\* C5: applying the magnitude, region and keyword filters in any order ends
\* as the program's order does: with the same two tables, or, where the
\* program's order raises, with an exception too.
C5_FiltersCommute ==
    /\ pc = "maps" =>
         \A o \in Orders : \A feed \in Feeds :
             Chain(o, Fetched(feed)) = Ok(Table(feed))
    /\ (pc = "failed" /\ err.step \in FilterSteps) =>
         \A o \in Orders : \E feed \in Feeds : ~Chain(o, Fetched(feed)).ok

\* All three filters were active on a feed of two records, the magnitude
\* filter alone would keep one, the region filter alone would keep one, and
\* together they left none.
C5_Witness ==
    /\ pc = "maps"
    /\ selected_regions # <<>>
    /\ location_keyword # <<>>
    /\ Len(Fetched("historical").rows) = 2
    /\ Len(MagnitudeFilter(Fetched("historical"), min_magnitude).value.rows) = 1
    /\ Len(apply_region_filter(Fetched("historical"), selected_regions).value.rows) = 1
    /\ historical_data.rows = <<>>

\* The records the spec's normaliser gives: those of the well-formed features.
RECURSIVE WellFormedOnly(_)
WellFormedOnly(features) ==
    IF features = <<>> THEN <<>>
    ELSE IF WellFormed(Head(features))
         THEN <<Head(features)>> \o WellFormedOnly(Tail(features))
         ELSE WellFormedOnly(Tail(features))

\* C6: a malformed feature is skipped and the batch goes on: the fetch of a
\* payload does not raise, and it returns the records of the payload's
\* well-formed features, in order.
C6_MalformedFeatureSkipped ==
    \A feed \in Feeds :
        upstream[feed].kind = "ok" =>
            /\ ~FetchRaised(feed)
            /\ JustFetched(feed) =>
                 LET good == WellFormedOnly(upstream[feed].features)
                 IN  /\ Len(Table(feed).rows) = Len(good)
                     /\ \A i \in 1..Len(good) : BuiltFrom(Table(feed).rows[i], good[i])

\* Both feeds answered with well-formed features and the query compiles:
\* nothing but an empty table is left to go wrong.
OnlyEmptinessAtStake ==
    /\ \A feed \in Feeds :
          upstream[feed].kind = "ok" /\ AllWellFormed(upstream[feed].features)
    /\ ~RegexCompileError(location_keyword)

\* C7: an empty record sequence never raises: a run whose feeds carry zero
\* features, or whose filters remove every record, does not end in an
\* exception.
C7_EmptyNeverRaises ==
    OnlyEmptinessAtStake => pc # "failed"

\* Request j asks again for the URL that request i fetched a table from.
Refetched(i, j) ==
    /\ i < j
    /\ requests[i].url = requests[j].url
    /\ requests[i].ok

\* C8: the fetch is cached per URL for an hour: once a URL has been fetched,
\* no request for it is issued in the 60 minutes that follow.
C8_NoRequestWithinTtl ==
    \A i, j \in 1..Len(requests) :
        Refetched(i, j) => requests[j].at - requests[i].at >= 60

\* C9: a fetch failure is never fatal: no run ends in an exception raised by
\* a fetch whose server was unreachable, answered without JSON or answered
\* without 'features'; after a failure of the real-time feed the historical
\* feed is still fetched.
C9_FetchFailureNotFatal ==
    \A feed \in Feeds :
        upstream[feed].kind \in {"unreachable", "not_json", "no_features"} =>
            ~FetchRaised(feed)

\* C10: the time-lapse leaves the historical table as it found it: when the
\* tables are shown, the historical table has the six columns of the
\* real-time table.
C10_HistoricalTableUnchanged ==
    pc \in {"data_tables", "done"} =>
        /\ historical_data.columns = realtime_data.columns
        /\ historical_data.columns = COLUMNS

====
